---- MODULE Spec2Model ----
(***************************************************************************)
(* Model of the inline-comment poster of reviewer/github.py:               *)
(*   GitHubClient.parse_diff_for_review_lines   (the diff indexer)         *)
(*   GitHubClient.post_inline_comment           (the comment submitter)    *)
(*   GitHubClient.post_review_with_inline_comments (the review poster)     *)
(* and of two tools of server.py that call into it:                        *)
(*   parse_diff_for_review_lines, check_related_config_files               *)
(* Strings are Python strings; a list is a sequence; a dict is a record.   *)
(***************************************************************************)
EXTENDS Integers, Sequences, FiniteSets, TLC

VARIABLES
    gh,               \* the local gh executable: "ok", "noauth", "missing"
    remote_diff,      \* the unified diff the remote serves for the PR
    remote_head,      \* the head commit of the PR on the remote
    remote_files,     \* the filenames the remote lists under /pulls/{number}/files
    entry,            \* the method the caller invoked: "review" or "inline"
    inline_comments,  \* argument of post_review_with_inline_comments
    event,            \* argument of post_review_with_inline_comments
    diff_arg,         \* the diff argument of the parse_diff_for_review_lines tool
    tool_result,      \* what a server.py tool returned
    pc,               \* position in the running operation
    deduplicated_comments, \* local of post_review_with_inline_comments
    results,          \* local of post_review_with_inline_comments
    idx,              \* index of `comment` in deduplicated_comments
    path, line, body, \* arguments of post_inline_comment
    position,         \* argument, then local, of post_inline_comment
    max_retries,      \* argument of post_inline_comment
    commit_id,        \* local of post_inline_comment
    attempt,          \* loop variable of post_inline_comment
    error_msg,        \* local of post_inline_comment
    ret,              \* how the current post_inline_comment call ended
    posts,            \* every gh invocation that ran, in order, with its result
    call_base,        \* Len(posts) when the current post_inline_comment call began
    sleeps            \* the time.sleep calls of the current post_inline_comment call

vars == <<gh, remote_diff, remote_head, remote_files, entry, inline_comments,
          event, diff_arg, tool_result, pc,
          deduplicated_comments, results, idx, path, line, body, position,
          max_retries, commit_id, attempt, error_msg, ret, posts, call_base,
          sleeps>>

-----------------------------------------------------------------------------
(* Python string operations *)

\* s.startswith(p)
StartsWith(s, p) == Len(s) >= Len(p) /\ SubSeq(s, 1, Len(p)) = p

\* sub in s
Contains(s, sub) ==
    \E i \in 1..(Len(s) - Len(sub) + 1) : SubSeq(s, i, i + Len(sub) - 1) = sub

\* s[n:]
Drop(s, n) == SubSeq(s, n + 1, Len(s))

\* s.find(sep) + 1 for a one-character sep: the first place of sep in s, or 0
Find(s, sep) ==
    IF \E i \in 1..Len(s) : SubSeq(s, i, i) = sep
    THEN CHOOSE i \in 1..Len(s) :
             /\ SubSeq(s, i, i) = sep
             /\ \A j \in 1..(i - 1) : SubSeq(s, j, j) # sep
    ELSE 0

\* text.split(sep) for a one-character separator
RECURSIVE Split(_, _)
Split(text, sep) ==
    LET i == Find(text, sep) IN
    IF i = 0 THEN <<text>>
    ELSE <<SubSeq(text, 1, i - 1)>> \o Split(Drop(text, i), sep)

\* s.split(): split on runs of white space, no empty parts
SplitWs(s) == SelectSeq(Split(s, " "), LAMBDA p : p # "")

Digits == <<"0", "1", "2", "3", "4", "5", "6", "7", "8", "9">>

IsDigit(c) == \E d \in 1..10 : Digits[d] = c

DigitVal(c) == (CHOOSE d \in 1..10 : Digits[d] = c) - 1

\* int(s) of a string of digits
RECURSIVE ParseInt(_, _)
ParseInt(s, acc) ==
    IF s = "" THEN acc
    ELSE ParseInt(Drop(s, 1), 10 * acc + DigitVal(SubSeq(s, 1, 1)))

\* the end of the longest run of digits of s that starts at i
RECURSIVE DigitsEnd(_, _)
DigitsEnd(s, i) ==
    IF i + 1 <= Len(s) /\ IsDigit(SubSeq(s, i + 1, i + 1))
    THEN DigitsEnd(s, i + 1) ELSE i

\* re.search(r"\+(\d+)", s): the places where a match starts
PlusDigitsAt(s) ==
    {i \in 1..(Len(s) - 1) : SubSeq(s, i, i) = "+" /\ IsDigit(SubSeq(s, i + 1, i + 1))}

\* int(match.group(1)) of the leftmost match
PlusDigitsValue(s) ==
    LET i == CHOOSE k \in PlusDigitsAt(s) : \A m \in PlusDigitsAt(s) : k <= m
    IN  ParseInt(SubSeq(s, i + 1, DigitsEnd(s, i + 1)), 0)

\* "\n".join(seq)
RECURSIVE JoinLines(_)
JoinLines(seq) ==
    IF seq = <<>> THEN ""
    ELSE IF Len(seq) = 1 THEN seq[1]
    ELSE seq[1] \o "\n" \o JoinLines(Tail(seq))

\* Python's None for a str | None value
None == "<None>"

-----------------------------------------------------------------------------
(* parse_diff_for_review_lines *)

\* context_buffer[-3:] if len(context_buffer) >= 3 else context_buffer[:]
ContextBefore(context_buffer) ==
    IF Len(context_buffer) >= 3
    THEN SubSeq(context_buffer, Len(context_buffer) - 2, Len(context_buffer))
    ELSE context_buffer

\* the loop over j in range(i + 1, min(i + 4, len(lines))), with its break
RECURSIVE ContextAfter(_, _, _)
ContextAfter(lines, j, last) ==
    IF j > last THEN <<>>
    ELSE LET next_line == lines[j] IN
         IF StartsWith(next_line, "@@") \/ StartsWith(next_line, "diff --git")
         THEN <<>>
         ELSE IF ~StartsWith(next_line, "---") /\ ~StartsWith(next_line, "+++")
              THEN <<next_line>> \o ContextAfter(lines, j + 1, last)
              ELSE ContextAfter(lines, j + 1, last)

\* a file marker that leaves the position counter running
PositionKept(diff_position) == diff_position

\* diff_position = 0  # Reset position for new file
PositionAtMarker(diff_position) == 0

\* an added line that leaves the line counter where it is
LineKept(current_line) == current_line

\* current_line += 1, after an entry is appended
LineAfterAdded(current_line) == current_line + 1

\* the locals of parse_diff_for_review_lines before its loop
ParseInit ==
    [results |-> <<>>, current_file |-> None, current_line |-> 0,
     diff_position |-> 0, context_buffer |-> <<>>]

\* one iteration of the loop, on lines[i] (i counts from 1 here)
ParseLine(lines, i, st) ==
    LET ln == lines[i] IN
    IF StartsWith(ln, "diff --git") THEN
        LET parts == SplitWs(ln) IN
        [st EXCEPT !.current_file = IF Len(parts) >= 4 THEN Drop(parts[4], 2) ELSE @,
                   !.context_buffer = <<>>,
                   !.diff_position = PositionAtMarker(@)]
    ELSE IF StartsWith(ln, "@@") THEN
        [st EXCEPT !.current_line = IF PlusDigitsAt(ln) # {} THEN PlusDigitsValue(ln) ELSE @,
                   !.context_buffer = <<>>,
                   !.diff_position = @ + 1]
    ELSE IF st.current_file = None THEN st
    ELSE
        LET pos == IF ~StartsWith(ln, "\\") THEN st.diff_position + 1
                   ELSE st.diff_position
        IN
        IF StartsWith(ln, "+") /\ ~StartsWith(ln, "+++") THEN
            LET last == IF i + 3 <= Len(lines) THEN i + 3 ELSE Len(lines)
                context_before == ContextBefore(st.context_buffer)
                context_after == ContextAfter(lines, i + 1, last)
            IN
            [st EXCEPT !.diff_position = pos,
                       !.results = Append(@,
                           [path |-> st.current_file,
                            line |-> st.current_line,
                            position |-> pos,
                            content |-> Drop(ln, 1),
                            context |-> JoinLines(context_before \o <<ln>> \o context_after)]),
                       !.current_line = LineAfterAdded(@)]
        ELSE IF StartsWith(ln, "-") /\ ~StartsWith(ln, "---") THEN
            [st EXCEPT !.diff_position = pos, !.context_buffer = Append(@, ln)]
        ELSE IF ~StartsWith(ln, "\\") THEN
            IF ~StartsWith(ln, "+++") /\ ~StartsWith(ln, "---")
            THEN [st EXCEPT !.diff_position = pos,
                            !.context_buffer = Append(@, ln),
                            !.current_line = @ + 1]
            ELSE [st EXCEPT !.diff_position = pos]
        ELSE [st EXCEPT !.diff_position = pos]

RECURSIVE ParseFrom(_, _, _)
ParseFrom(lines, i, st) ==
    IF i > Len(lines) THEN st
    ELSE ParseFrom(lines, i + 1, ParseLine(lines, i, st))

parse_diff_for_review_lines(diff) ==
    ParseFrom(Split(diff, "\n"), 1, ParseInit).results


-----------------------------------------------------------------------------
(* Bounds and inputs *)

\* the longest inline_comments list explored
MaxComments == 3

\* the longest inline_comments list explored where every step is taken
MaxLiveComments == 2

\* the largest max_retries a direct caller of post_inline_comment passes
MaxRetriesArg == 3

\* max_retries: int = 5
DefaultMaxRetries == 5

\* position: int | None = None
NoPosition == 0

\* the position a direct caller of post_inline_comment may pass
GivenPosition == 9

\* summary
Summary == "LGTM"

\* the comment dicts a caller may put in inline_comments; the last has no "body" key
Requests ==
    {[path |-> "f", line |-> 1, body |-> "a"],
     [path |-> "f", line |-> 1, body |-> "b"],
     [path |-> "f", line |-> 2, body |-> "c"],
     [path |-> "g", line |-> 1, body |-> "d"],
     [path |-> "f", line |-> 2]}

SeqsUpTo(S, n) == UNION {[1..k -> S] : k \in 0..n}

\* two hunks of f that both declare new-side line 1: (f, 1) is indexed twice
DiffOverlap ==
    "diff --git a/f b/f\n--- a/f\n+++ b/f\n@@ -1,1 +1,2 @@\n+x\n c\n@@ -1,1 +1,2 @@\n+y"

\* f gains lines 2 and 3, g loses a line
DiffTwoFiles ==
    "diff --git a/f b/f\n--- a/f\n+++ b/f\n@@ -1,2 +1,4 @@\n c\n+x\n+y\n d\ndiff --git a/g b/g\n--- a/g\n+++ b/g\n@@ -1,2 +1,1 @@\n-x\n c\n"

Diffs == {DiffOverlap, DiffTwoFiles}

\* stderr of a failed gh run
ValidationStderr == "gh: Validation Failed (HTTP 422)"
TransientStderr == "gh: Bad Gateway (HTTP 502)"
AuthStderr == "gh: not logged in, run gh auth login"

\* str(e) of the error an httpx call raises
HttpError == "HTTPStatusError"

\* str(e) of the FileNotFoundError subprocess.run raises when gh is absent
NoGhError == "[Errno 2] No such file or directory: 'gh'"

\* what a gh run that posts a plain comment can give: returncode and stderr
PlainRuns ==
    IF gh = "ok"
    THEN {[returncode |-> 0, stderr |-> ""], [returncode |-> 1, stderr |-> TransientStderr]}
    ELSE {[returncode |-> 1, stderr |-> AuthStderr]}

\* what a gh run that posts a positional comment can give
PositionalRuns ==
    IF gh = "ok"
    THEN {[returncode |-> 0, stderr |-> ""],
          [returncode |-> 1, stderr |-> ValidationStderr],
          [returncode |-> 1, stderr |-> TransientStderr]}
    ELSE {[returncode |-> 1, stderr |-> AuthStderr]}

\* str(n) for n >= 0
RECURSIVE IntToStr(_)
IntToStr(n) == IF n < 10 THEN Digits[n + 1] ELSE IntToStr(n \div 10) \o Digits[(n % 10) + 1]


-----------------------------------------------------------------------------
(* post_review_with_inline_comments: deduplication *)

\* comment.get(k, default)
Get(comment, k, default) == IF k \in DOMAIN comment THEN comment[k] ELSE default

\* a deduplication that keys on the path alone
DedupKeyPathOnly(comment) == <<Get(comment, "path", None)>>

\* key = (comment.get("path"), comment.get("line"))
DedupKey(comment) == <<Get(comment, "path", None), Get(comment, "line", NoPosition)>>

\* the loop `for comment in inline_comments`, from comment i on
RECURSIVE DedupFrom(_, _, _)
DedupFrom(comments, i, st) ==
    IF i > Len(comments) THEN st
    ELSE LET comment == comments[i]
             key == DedupKey(comment)
         IN  IF key \notin st.seen
             THEN DedupFrom(comments, i + 1,
                      [st EXCEPT !.seen = @ \cup {key},
                                 !.deduplicated_comments = Append(@, comment)])
             ELSE DedupFrom(comments, i + 1,
                      [st EXCEPT !.duplicates_removed = @ + 1])

Deduplicate(comments) ==
    DedupFrom(comments, 1,
        [seen |-> {}, deduplicated_comments |-> <<>>, duplicates_removed |-> 0])

\* the results dict as first built
InitialResults(comments, dedup) ==
    [summary_posted |-> FALSE,
     summary_error |-> None,
     inline_comments |-> <<>>,
     total |-> Len(comments),
     deduplicated_total |-> Len(dedup.deduplicated_comments),
     duplicates_removed |-> dedup.duplicates_removed,
     successful |-> 0,
     failed |-> 0]

\* the value of results before the results dict is built
NoResults == InitialResults(<<>>, Deduplicate(<<>>))

-----------------------------------------------------------------------------
(* Initial states: a caller invokes one of the two posting methods *)

InitReview ==
    /\ entry = "review"
    /\ inline_comments \in SeqsUpTo(Requests, MaxComments)
    /\ event = "COMMENT"
    /\ pc = "start"
    /\ path = None /\ line = 0 /\ body = None
    /\ position = NoPosition
    /\ max_retries = DefaultMaxRetries
    /\ ret = [st |-> "none"]

InitInline ==
    /\ entry = "inline"
    /\ inline_comments = <<>>
    /\ event = None
    /\ pc = "head_sha"
    /\ \E c \in Requests :
           /\ "body" \in DOMAIN c
           /\ path = c.path /\ line = c.line /\ body = c.body
    /\ position \in {NoPosition, GivenPosition}
    /\ max_retries \in (1..MaxRetriesArg) \cup {DefaultMaxRetries}
    /\ ret = [st |-> "running"]

\* the locals of the posting methods before they run; no tool has returned
InitLocals ==
    /\ tool_result = None
    /\ deduplicated_comments = <<>>
    /\ results = NoResults
    /\ idx = 1
    /\ commit_id = None
    /\ attempt = 0
    /\ error_msg = None
    /\ posts = <<>>
    /\ call_base = 0
    /\ sleeps = <<>>

Init ==
    /\ gh \in {"ok", "noauth", "missing"}
    /\ remote_diff \in Diffs
    /\ remote_head = "sha1"
    /\ remote_files = <<>>
    /\ diff_arg = None
    /\ InitReview \/ InitInline
    /\ InitLocals


-----------------------------------------------------------------------------
(* How a post_inline_comment call hands control back *)

remote == <<gh, remote_diff, remote_head, remote_files>>
args == <<entry, inline_comments, event>>
tools == <<diff_arg, tool_result>>
call_args == <<path, line, body, max_retries>>

\* a gh invocation that ran, as recorded in posts
GhRun(kind, text, pos, sha, run) ==
    [kind |-> kind, path |-> path, line |-> line, body |-> body, text |-> text,
     position |-> pos, commit_id |-> sha,
     returncode |-> run.returncode, stderr |-> run.stderr]

\* a loop that takes the surviving comments last to first
CommentAtReversed(i) == deduplicated_comments[Len(deduplicated_comments) + 1 - i]

\* comment, in pass i of `for comment in deduplicated_comments`
CommentAt(i) == deduplicated_comments[i]

\* a try body that appends the "success" record and forgets to count it
ReturnsUncounted(result) ==
    /\ ret' = [st |-> "returned", result |-> result]
    /\ IF entry = "review"
       THEN /\ results' = [results EXCEPT
                   !.inline_comments = Append(@,
                       [path |-> path, line |-> line, status |-> "success",
                        result |-> result])]
            /\ idx' = idx + 1
            /\ pc' = "loop"
       ELSE /\ pc' = "returned"
            /\ UNCHANGED <<results, idx>>

\* post_inline_comment returns result; under post_review_with_inline_comments
\* the try body goes on: a "success" record, successful += 1, next comment
Returns(result) ==
    /\ ret' = [st |-> "returned", result |-> result]
    /\ IF entry = "review"
       THEN /\ results' = [results EXCEPT
                   !.inline_comments = Append(@,
                       [path |-> path, line |-> line, status |-> "success",
                        result |-> result]),
                   !.successful = @ + 1]
            /\ idx' = idx + 1
            /\ pc' = "loop"
       ELSE /\ pc' = "returned"
            /\ UNCHANGED <<results, idx>>

\* no except branch: the error leaves post_review_with_inline_comments
RaisesAborts(error) ==
    /\ ret' = [st |-> "raised", error |-> error]
    /\ pc' = "raised"
    /\ UNCHANGED <<results, idx>>

\* an except branch that counts the failure and appends no record
RaisesNoRecord(error) ==
    /\ ret' = [st |-> "raised", error |-> error]
    /\ IF entry = "review"
       THEN /\ results' = [results EXCEPT !.failed = @ + 1]
            /\ idx' = idx + 1
            /\ pc' = "loop"
       ELSE /\ pc' = "raised"
            /\ UNCHANGED <<results, idx>>

\* post_inline_comment raises an Exception with str(e) = error; under
\* post_review_with_inline_comments `except Exception as e` records it
Raises(error) ==
    /\ ret' = [st |-> "raised", error |-> error]
    /\ IF entry = "review"
       THEN /\ results' = [results EXCEPT
                   !.inline_comments = Append(@,
                       [path |-> Get(CommentAt(idx), "path", "unknown"),
                        line |-> Get(CommentAt(idx), "line", 0),
                        status |-> "failed",
                        error |-> error]),
                   !.failed = @ + 1]
            /\ idx' = idx + 1
            /\ pc' = "loop"
       ELSE /\ pc' = "raised"
            /\ UNCHANGED <<results, idx>>

-----------------------------------------------------------------------------
(* post_review_with_inline_comments *)

\* the deduplication loop and the results dict
Dedup ==
    /\ pc = "start"
    /\ LET dedup == Deduplicate(inline_comments) IN
       /\ deduplicated_comments' = dedup.deduplicated_comments
       /\ results' = InitialResults(inline_comments, dedup)
    /\ pc' = "summary"
    /\ UNCHANGED <<remote, args, tools, idx, call_args, position, commit_id, attempt,
                   error_msg, ret, posts, call_base, sleeps>>

\* the gh run of post_review_comment(pr_number, body, event):
\* ["gh", "pr", "comment", str(pr_number), "--repo", REPO, "--body", body]
SummaryPost(text, ev, run) ==
    [kind |-> "summary", path |-> None, line |-> 0, body |-> text,
     text |-> text, position |-> NoPosition, commit_id |-> None,
     returncode |-> run.returncode, stderr |-> run.stderr]

\* post_review_comment ran gh and gh gave `run`
SummaryRan(run) ==
    /\ posts' = Append(posts, SummaryPost(Summary, event, run))
    /\ results' = IF run.returncode # 0
                  THEN [results EXCEPT
                           !.summary_error = "gh pr comment failed: " \o run.stderr]
                  ELSE [results EXCEPT !.summary_posted = TRUE]

\* subprocess.run could not start gh: the FileNotFoundError is caught
SummaryNotRun ==
    /\ posts' = posts
    /\ results' = [results EXCEPT !.summary_error = NoGhError]

\* no try around post_review_comment: a failed summary ends the operation
PostSummaryAborts ==
    /\ pc = "summary"
    /\ IF gh = "missing"
       THEN pc' = "raised" /\ UNCHANGED <<posts, results>>
       ELSE \E run \in PlainRuns :
              /\ posts' = Append(posts,
                     [kind |-> "summary", path |-> None, line |-> 0, body |-> Summary,
                      text |-> Summary, position |-> NoPosition, commit_id |-> None,
                      returncode |-> run.returncode, stderr |-> run.stderr])
              /\ IF run.returncode # 0
                 THEN pc' = "raised" /\ UNCHANGED results
                 ELSE pc' = "loop" /\ results' = [results EXCEPT !.summary_posted = TRUE]
    /\ UNCHANGED <<remote, args, tools, deduplicated_comments, idx, call_args, position,
                   commit_id, attempt, error_msg, ret, call_base, sleeps>>

\* try: self.post_review_comment(...) except Exception
PostSummary ==
    /\ pc = "summary"
    /\ IF gh = "missing" THEN SummaryNotRun
       ELSE \E run \in PlainRuns : SummaryRan(run)
    /\ pc' = "loop"
    /\ UNCHANGED <<remote, args, tools, deduplicated_comments, idx, call_args, position,
                   commit_id, attempt, error_msg, ret, call_base, sleeps>>

\* comment["path"], comment["line"], comment["body"]: the first missing key
MissingKey(comment) ==
    IF "path" \notin DOMAIN comment THEN "path"
    ELSE IF "line" \notin DOMAIN comment THEN "line"
    ELSE IF "body" \notin DOMAIN comment THEN "body"
    ELSE None

\* the loop body for a comment that lacks a key: KeyError, a "failed" record
BadComment ==
    /\ pc = "loop"
    /\ idx <= Len(deduplicated_comments)
    /\ LET comment == CommentAt(idx) IN
       /\ MissingKey(comment) # None
       /\ results' = [results EXCEPT
              !.inline_comments = Append(@,
                  [path |-> Get(comment, "path", "unknown"),
                   line |-> Get(comment, "line", 0),
                   status |-> "failed",
                   error |-> "'" \o MissingKey(comment) \o "'"]),
              !.failed = @ + 1]
    /\ idx' = idx + 1
    /\ UNCHANGED <<remote, args, tools, pc, deduplicated_comments, call_args, position,
                   commit_id, attempt, error_msg, ret, posts, call_base, sleeps>>

\* the loop body calls self.post_inline_comment(pr_number, path, line, body)
CallInline ==
    /\ pc = "loop"
    /\ idx <= Len(deduplicated_comments)
    /\ LET comment == CommentAt(idx) IN
       /\ MissingKey(comment) = None
       /\ path' = comment.path
       /\ line' = comment.line
       /\ body' = comment.body
    /\ position' = NoPosition
    /\ max_retries' = DefaultMaxRetries
    /\ commit_id' = None
    /\ attempt' = 0
    /\ error_msg' = None
    /\ ret' = [st |-> "running"]
    /\ call_base' = Len(posts)
    /\ sleeps' = <<>>
    /\ pc' = "head_sha"
    /\ UNCHANGED <<remote, args, tools, deduplicated_comments, results, idx, posts>>

\* return results
ReturnResults ==
    /\ pc = "loop"
    /\ idx > Len(deduplicated_comments)
    /\ pc' = "returned"
    /\ UNCHANGED <<remote, args, tools, deduplicated_comments, results, idx, call_args,
                   position, commit_id, attempt, error_msg, ret, posts, call_base,
                   sleeps>>


-----------------------------------------------------------------------------
(* post_inline_comment *)

\* a match on the path alone
MatchingPathOnly(review_lines, p, l) ==
    SelectSeq(review_lines, LAMBDA rl : rl.path = p)

\* [rl for rl in review_lines if rl['path'] == path and rl['line'] == line]
Matching(review_lines, p, l) ==
    SelectSeq(review_lines, LAMBDA rl : rl.path = p /\ rl.line = l)

\* a check for the wrong status
IsValidationError400(msg) == Contains(msg, "400") \/ Contains(msg, "Bad Request")

\* "422" in error_msg or "Validation Failed" in error_msg
IsValidationError(msg) == Contains(msg, "422") \/ Contains(msg, "Validation Failed")

\* a retry test that never gives up
MayRetryAlways(a, n) == TRUE

\* attempt < max_retries - 1
MayRetry(a, n) == a < n - 1

\* a backoff that starts at 2s
wait_time_from_two(a) == 2 ^ (a + 1)

\* wait_time = 2 ** attempt
wait_time(a) == 2 ^ a

\* a retry loop whose success does not return
NextStepNoReturn(run, a, n) ==
    IF run.returncode # 0 /\ ~IsValidationError(run.stderr) /\ MayRetry(a, n)
    THEN "sleep" ELSE "fallback"

\* what the retry loop does after a gh run of attempt a of n
NextStep(run, a, n) ==
    IF run.returncode = 0 THEN "return"
    ELSE IF IsValidationError(run.stderr) THEN "fallback"
    ELSE IF MayRetry(a, n) THEN "sleep"
    ELSE "fallback"

\* an attempt count that starts at 0
InlineResultZeroBased(p, l, pos, a) ==
    [posted_via |-> "gh_api_inline", path |-> p, line |-> l, position |-> pos,
     attempts |-> a]

\* the dict returned after a successful positional post
InlineResult(p, l, pos, a) ==
    [posted_via |-> "gh_api_inline", path |-> p, line |-> l, position |-> pos,
     attempts |-> a + 1]

\* the dict returned when the line is not in the diff
NotInDiffResult(p, l) ==
    [posted_via |-> "gh_cli_fallback", path |-> p, line |-> l,
     error |-> "Line not in diff"]

\* the dict returned after the fallback that follows the retry loop
FallbackResult(p, l, msg, n) ==
    [posted_via |-> "gh_cli_fallback", path |-> p, line |-> l, error |-> msg,
     attempts |-> n]

\* f"**{path}:{line}**\n\n{body}"
NotInDiffBody(p, l, b) == "**" \o p \o ":" \o IntToStr(l) \o "**\n\n" \o b

\* the formatted_body of the fallback after the retry loop
FallbackBody(p, l, b, msg) ==
    NotInDiffBody(p, l, b)
        \o "\n\n---\n*Note: Could not post as inline comment. Error: " \o msg \o "*"

\* commit_id = self._get_pr_head_sha(pr_number)
GetHeadSha ==
    /\ pc = "head_sha"
    /\ \E ok \in BOOLEAN :
           IF ok
           THEN /\ commit_id' = remote_head
                /\ pc' = IF position = NoPosition THEN "fetch_pr" ELSE "attempt"
                /\ UNCHANGED <<results, idx, ret>>
           ELSE /\ Raises(HttpError)
                /\ UNCHANGED commit_id
    /\ UNCHANGED <<remote, args, tools, deduplicated_comments, call_args, position,
                   attempt, error_msg, posts, call_base, sleeps>>

\* pr = self.fetch_pr(pr_number), the parse and the match
FetchPr ==
    /\ pc = "fetch_pr"
    /\ \E ok \in BOOLEAN :
           IF ok
           THEN LET review_lines == parse_diff_for_review_lines(remote_diff)
                    matching == Matching(review_lines, path, line)
                IN  /\ IF matching # <<>>
                       THEN position' = matching[1].position /\ pc' = "attempt"
                       ELSE position' = position /\ pc' = "not_in_diff"
                    /\ UNCHANGED <<results, idx, ret>>
           ELSE /\ Raises(HttpError)
                /\ UNCHANGED position
    /\ UNCHANGED <<remote, args, tools, deduplicated_comments, call_args, commit_id,
                   attempt, error_msg, posts, call_base, sleeps>>

\* the plain comment posted when the line is not in the diff
PostNotInDiff ==
    /\ pc = "not_in_diff"
    /\ IF gh = "missing"
       THEN Raises(NoGhError) /\ UNCHANGED posts
       ELSE \E run \in PlainRuns :
              /\ posts' = Append(posts,
                     GhRun("plain", NotInDiffBody(path, line, body), NoPosition, None, run))
              /\ IF run.returncode # 0
                 THEN Raises("gh pr comment failed: " \o run.stderr)
                 ELSE Returns(NotInDiffResult(path, line))
    /\ UNCHANGED <<remote, args, tools, deduplicated_comments, call_args, position,
                   commit_id, attempt, error_msg, call_base, sleeps>>

\* one iteration of `for attempt in range(max_retries)` up to the sleep
PostPositional ==
    /\ pc = "attempt"
    /\ attempt < max_retries
    /\ IF gh = "missing"
       THEN Raises(NoGhError) /\ UNCHANGED <<posts, error_msg>>
       ELSE \E run \in PositionalRuns :
              /\ posts' = Append(posts, GhRun("inline", body, position, commit_id, run))
              /\ IF NextStep(run, attempt, max_retries) = "return"
                 THEN /\ Returns(InlineResult(path, line, position, attempt))
                      /\ UNCHANGED error_msg
                 ELSE /\ error_msg' = run.stderr
                      /\ pc' = NextStep(run, attempt, max_retries)
                      /\ UNCHANGED <<results, idx, ret>>
    /\ UNCHANGED <<remote, args, tools, deduplicated_comments, call_args, position,
                   commit_id, attempt, call_base, sleeps>>

\* time.sleep(wait_time); continue
Sleep ==
    /\ pc = "sleep"
    /\ sleeps' = Append(sleeps, wait_time(attempt))
    /\ attempt' = attempt + 1
    /\ pc' = "attempt"
    /\ UNCHANGED <<remote, args, tools, deduplicated_comments, results, idx, call_args,
                   position, commit_id, error_msg, ret, posts, call_base>>

\* the plain comment posted after the retry loop
PostFallback ==
    /\ pc = "fallback"
    /\ IF gh = "missing"
       THEN Raises(NoGhError) /\ UNCHANGED posts
       ELSE \E run \in PlainRuns :
              /\ posts' = Append(posts,
                     GhRun("plain", FallbackBody(path, line, body, error_msg),
                           NoPosition, None, run))
              /\ IF run.returncode # 0
                 THEN Raises("gh pr comment failed: " \o run.stderr)
                 ELSE Returns(FallbackResult(path, line, error_msg, max_retries))
    /\ UNCHANGED <<remote, args, tools, deduplicated_comments, call_args, position,
                   commit_id, attempt, error_msg, call_base, sleeps>>

-----------------------------------------------------------------------------

Next ==
    \/ Dedup
    \/ PostSummary
    \/ BadComment
    \/ CallInline
    \/ ReturnResults
    \/ GetHeadSha
    \/ FetchPr
    \/ PostNotInDiff
    \/ PostPositional
    \/ Sleep
    \/ PostFallback

Spec == Init /\ [][Next]_vars

\* the invocations followed to their end
InitLive ==
    /\ Init
    /\ Len(inline_comments) <= MaxLiveComments

\* every call the methods make returns, so a method that can take a step takes it
SpecLive == InitLive /\ [][Next]_vars /\ WF_vars(Next)

-----------------------------------------------------------------------------
(* A review posted while the PR is pushed to *)

\* the pushes to the PR explored while one review is posted
MaxPushes == 1

\* the longest inline_comments list of a review posted under pushes
MaxRemoteComments == 2

\* event: COMMENT, APPROVE, or REQUEST_CHANGES
Events == {"COMMENT", "APPROVE", "REQUEST_CHANGES"}

\* pr["head"]["sha"] after k - 1 pushes
Sha(k) == "sha" \o IntToStr(k)

\* somebody pushes to the PR: the remote serves a new head and a diff
Push ==
    /\ \E k \in 1..MaxPushes :
           /\ remote_head = Sha(k)
           /\ remote_head' = Sha(k + 1)
    /\ remote_diff' \in Diffs
    /\ UNCHANGED <<gh, remote_files, args, tools, pc, deduplicated_comments,
                   results, idx, call_args, position, commit_id, attempt,
                   error_msg, ret, posts, call_base, sleeps>>

\* post_review_with_inline_comments(pr_number, summary, inline_comments, event)
InitRemote ==
    /\ gh = "ok"
    /\ remote_diff \in Diffs
    /\ remote_head = Sha(1)
    /\ remote_files = <<>>
    /\ diff_arg = None
    /\ entry = "review"
    /\ inline_comments \in SeqsUpTo(Requests, MaxRemoteComments)
    /\ event \in Events
    /\ pc = "start"
    /\ path = None /\ line = 0 /\ body = None
    /\ position = NoPosition
    /\ max_retries = DefaultMaxRetries
    /\ ret = [st |-> "none"]
    /\ InitLocals

NextRemote ==
    \/ Next
    \/ Push

SpecRemote == InitRemote /\ [][NextRemote]_vars

-----------------------------------------------------------------------------
(* The server.py tools *)

\* the longest diff, in lines, a caller hands to parse_diff_for_review_lines
MaxDiffLines == 5

\* the lines such a diff is made of
DiffLines ==
    {"diff --git a/f b/f", "+++ b/f",
     "@@ -1,3 +1,4 @@", "@@ -7,2 +8,3 @@",
     " c", "+foo", "-old", "\\ No newline at end of file"}

\* a caller invokes the parse_diff_for_review_lines tool on a diff text
InitParse ==
    /\ entry = "parse"
    /\ diff_arg \in {JoinLines(ls) : ls \in SeqsUpTo(DiffLines, MaxDiffLines)}
    /\ remote_files = <<>>

\* the longest list of changed files of the PR
MaxChangedFiles == 2

\* the filenames the remote may list for the PR
Filenames ==
    {"vllm/models/llama.py", "requirements.txt", "Config/app.yaml",
     ".github/ci.yml", "README.md"}

\* a caller invokes the check_related_config_files tool on a PR
InitConfig ==
    /\ entry = "config"
    /\ diff_arg = None
    /\ remote_files \in SeqsUpTo(Filenames, MaxChangedFiles)

\* no posting method runs while a tool does
InitTools ==
    /\ gh = "ok"
    /\ remote_diff = DiffTwoFiles
    /\ remote_head = "sha1"
    /\ InitParse \/ InitConfig
    /\ inline_comments = <<>>
    /\ event = None
    /\ pc = "tool"
    /\ path = None /\ line = 0 /\ body = None
    /\ position = NoPosition
    /\ max_retries = DefaultMaxRetries
    /\ ret = [st |-> "none"]
    /\ InitLocals

\* return _gh.parse_diff_for_review_lines(diff)
ParseDiff ==
    /\ entry = "parse"
    /\ pc = "tool"
    /\ tool_result' = parse_diff_for_review_lines(diff_arg)
    /\ pc' = "tool_returned"
    /\ UNCHANGED <<remote, args, diff_arg, deduplicated_comments, results, idx,
                   call_args, position, commit_id, attempt, error_msg, ret, posts,
                   call_base, sleeps>>

UpperCase == "ABCDEFGHIJKLMNOPQRSTUVWXYZ"
LowerCase == "abcdefghijklmnopqrstuvwxyz"

\* s.lower()
RECURSIVE Lower(_)
Lower(s) ==
    IF s = "" THEN ""
    ELSE LET c == SubSeq(s, 1, 1)
             u == Find(UpperCase, c)
         IN  (IF u = 0 THEN c ELSE SubSeq(LowerCase, u, u)) \o Lower(Drop(s, 1))

\* s.endswith(suffix)
EndsWith(s, suffix) ==
    Len(s) >= Len(suffix) /\ SubSeq(s, Len(s) - Len(suffix) + 1, Len(s)) = suffix

\* the dict fetch_pr returns, when no request of it fails
fetch_pr ==
    [number |-> 1, title |-> "t", body |-> "", state |-> "open", user |-> "u",
     labels |-> <<>>, base_ref |-> "main", head_ref |-> "dev",
     head_sha |-> remote_head, diff |-> remote_diff,
     changed_files |-> remote_files,
     comments |-> <<>>, review_comments |-> <<>>, reviews |-> <<>>]

\* [f["filename"] for f in pr.get("files", [])]
ToolChangedFiles(pr) ==
    LET files == Get(pr, "files", <<>>) IN
    [i \in 1..Len(files) |-> files[i].filename]

IsDependencyFile(f) ==
    Contains(f, "requirements") \/ Contains(f, "setup.py") \/ Contains(f, "pyproject.toml")
IsModelFile(f) == Contains(f, "models/")
IsConfigNamed(f) == Contains(Lower(f), "config")
IsConfigFile(f) ==
    /\ Contains(Lower(f), "config")
    /\ \E suffix \in {".yaml", ".yml", ".json", ".toml"} : EndsWith(f, suffix)
IsBuildFile(f) ==
    Contains(f, ".github/") \/ Contains(f, "Dockerfile") \/ Contains(f, "Makefile")

\* one member of relevant_configs
Config(p, reason, exists) == [path |-> p, reason |-> reason, exists |-> exists]

\* the relevant_configs list of check_related_config_files before the existence
\* of its members is verified
check_related_config_files(changed_files) ==
    LET modified == SelectSeq(changed_files, IsConfigFile) IN
    (IF SelectSeq(changed_files, IsDependencyFile) # <<>>
     THEN <<Config("pyproject.toml", "Python dependencies changed", TRUE)>>
     ELSE <<>>)
    \o (IF SelectSeq(changed_files, IsModelFile) # <<>>
        THEN <<Config("vllm/model_executor/models/__init__.py",
                      "Model registry might need updates", TRUE)>>
        ELSE <<>>)
    \o (IF SelectSeq(changed_files, IsConfigNamed) # <<>>
        THEN [i \in 1..Len(modified) |->
                 Config(modified[i], "Configuration file modified", TRUE)]
        ELSE <<>>)
    \o (IF SelectSeq(changed_files, IsBuildFile) # <<>>
        THEN <<Config(".github/workflows/", "CI/build configuration changed", TRUE)>>
        ELSE <<>>)

\* the check_related_config_files tool: fetch_pr, then the check, each member's
\* "exists" set by whether the HEAD request for it raised
CheckConfig ==
    /\ entry = "config"
    /\ pc = "tool"
    /\ \E ok \in BOOLEAN :
           IF ok
           THEN LET relevant_configs ==
                        check_related_config_files(ToolChangedFiles(fetch_pr))
                IN  /\ \E exists \in [1..Len(relevant_configs) -> BOOLEAN] :
                           tool_result' =
                               [relevant_configs |->
                                   [i \in 1..Len(relevant_configs) |->
                                       [relevant_configs[i] EXCEPT !.exists = exists[i]]]]
                    /\ pc' = "tool_returned"
           ELSE /\ tool_result' = HttpError
                /\ pc' = "tool_raised"
    /\ UNCHANGED <<remote, args, diff_arg, deduplicated_comments, results, idx,
                   call_args, position, commit_id, attempt, error_msg, ret, posts,
                   call_base, sleeps>>

NextTools ==
    \/ ParseDiff
    \/ CheckConfig

SpecTools == InitTools /\ [][NextTools]_vars


-----------------------------------------------------------------------------
(* Properties *)

\* the gh invocations of the current post_inline_comment call
CallPosts == SubSeq(posts, call_base + 1, Len(posts))

\* its positional posts and its plain posts
CallInlinePosts == SelectSeq(CallPosts, LAMBDA p : p.kind = "inline")
CallPlainPosts == SelectSeq(CallPosts, LAMBDA p : p.kind = "plain")

\* post_review_with_inline_comments has built its results dict
Deduplicated == entry = "review" /\ pc \notin {"start"}

\* comment i of the input is the first with its (path, line)
FirstOfKey(i) ==
    \A j \in 1..(i - 1) :
        ~(inline_comments[j].path = inline_comments[i].path
          /\ inline_comments[j].line = inline_comments[i].line)

FirstIndices == {i \in 1..Len(inline_comments) : FirstOfKey(i)}

\* the k-th smallest member of FirstIndices
KthFirst(k) ==
    LET firsts == FirstIndices IN
    CHOOSE i \in firsts : Cardinality({j \in firsts : j < i}) = k - 1

\* C1: the surviving list is the first request of each distinct (path, line) in
\* input order, total = deduplicated_total + duplicates_removed, and every
\* positional or plain post is made for a request that is the first of its key.
C1_DedupFirstOfKey ==
    Deduplicated =>
        /\ Len(deduplicated_comments) = Cardinality(FirstIndices)
        /\ \A k \in 1..Len(deduplicated_comments) :
               deduplicated_comments[k] = inline_comments[KthFirst(k)]
        /\ results.total = Len(inline_comments)
        /\ results.deduplicated_total = Len(deduplicated_comments)
        /\ results.total = results.deduplicated_total + results.duplicates_removed
        /\ \A n \in 1..Len(posts) :
               posts[n].kind # "summary" =>
                   \E i \in 1..Len(inline_comments) :
                       /\ FirstOfKey(i)
                       /\ "body" \in DOMAIN inline_comments[i]
                       /\ posts[n].path = inline_comments[i].path
                       /\ posts[n].line = inline_comments[i].line
                       /\ posts[n].body = inline_comments[i].body

\* a duplicate of the first request is dropped; the first and the third are posted
C1_Witness ==
    /\ entry = "review" /\ pc = "returned"
    /\ inline_comments = <<[path |-> "f", line |-> 1, body |-> "a"],
                           [path |-> "f", line |-> 1, body |-> "b"],
                           [path |-> "g", line |-> 1, body |-> "d"]>>
    /\ results.deduplicated_total = 2
    /\ results.duplicates_removed = 1
    /\ \E n \in 1..Len(posts) : posts[n].kind = "inline" /\ posts[n].body = "a"
    /\ \E n \in 1..Len(posts) : posts[n].kind = "plain" /\ posts[n].body = "d"

\* C2: when post_review_with_inline_comments returns, inline_comments holds one
\* record, success or failed, per surviving request, in the survivors' order.
C2_OneRecordPerSurvivor ==
    (entry = "review" /\ pc = "returned") =>
        /\ Len(results.inline_comments) = results.deduplicated_total
        /\ Len(results.inline_comments) = Len(deduplicated_comments)
        /\ \A k \in 1..Len(results.inline_comments) :
               /\ results.inline_comments[k].path = deduplicated_comments[k].path
               /\ results.inline_comments[k].line = deduplicated_comments[k].line
               /\ results.inline_comments[k].status \in {"success", "failed"}

\* a returned review with a success and a failed record
C2_Witness ==
    /\ entry = "review" /\ pc = "returned"
    /\ results.deduplicated_total = 3
    /\ \E k \in 1..Len(results.inline_comments) :
           results.inline_comments[k].status = "success"
    /\ \E k \in 1..Len(results.inline_comments) :
           /\ results.inline_comments[k].status = "failed"
           /\ "body" \in DOMAIN deduplicated_comments[k]


\* a post_inline_comment call has begun (and may have ended)
Called == ret.st # "none"

\* every positional post of the call so far failed with a non-validation error
AllTransient ==
    LET inline == CallInlinePosts IN
    \A k \in 1..Len(inline) :
        /\ inline[k].returncode # 0
        /\ inline[k].stderr \in {TransientStderr, AuthStderr}

\* the waits after the first m failed attempts: 1s, 2s, 4s, ...
Backoff(m) == [k \in 1..m |-> 2 ^ (k - 1)]

\* C3: while every positional attempt fails with a transient error, the call
\* waits 2^(k-1) seconds after the k-th failure for k < max_retries, makes
\* exactly max_retries positional posts, does not wait after the last, and then
\* falls back.
C3_RetryCeilingAndBackoff ==
    (Called /\ AllTransient) =>
        LET n == Len(CallInlinePosts) IN
        /\ n <= max_retries
        /\ (ret.st = "running" /\ pc = "attempt") => (n < max_retries /\ sleeps = Backoff(n))
        /\ pc = "sleep" => (1 <= n /\ n < max_retries /\ sleeps = Backoff(n - 1))
        /\ pc = "fallback" => (n = max_retries /\ sleeps = Backoff(max_retries - 1))
        /\ (ret.st = "running" /\ n = max_retries) => pc = "fallback"
        /\ (n >= 1 /\ ret.st # "running") =>
               /\ n = max_retries
               /\ sleeps = Backoff(max_retries - 1)
               /\ Len(CallPlainPosts) = 1
               /\ CallPosts[Len(CallPosts)].kind = "plain"

\* max_retries = 3, three transient failures, waits of 1s then 2s, about to fall back
C3_Witness ==
    /\ max_retries = 3
    /\ pc = "fallback"
    /\ Len(CallInlinePosts) = 3
    /\ \A k \in 1..3 : CallInlinePosts[k].stderr = TransientStderr
    /\ sleeps = <<1, 2>>

\* C4: a positional attempt that fails with a validation error is the last
\* positional post of its call, no wait follows it, and the call goes to the
\* fallback.
C4_ValidationIsTerminal ==
    Called =>
        LET inline == CallInlinePosts IN
        \A k \in 1..Len(inline) :
            inline[k].stderr = ValidationStderr =>
                /\ k = Len(inline)
                /\ Len(sleeps) = k - 1
                /\ ret.st = "running" => pc = "fallback"
                /\ ret.st # "running" =>
                       /\ Len(CallPlainPosts) = 1
                       /\ CallPosts[Len(CallPosts)].kind = "plain"

\* a validation failure on attempt 1 of 5, and the fallback posted
C4_Witness ==
    /\ max_retries = 5
    /\ ret.st = "returned"
    /\ Len(CallInlinePosts) = 1
    /\ CallInlinePosts[1].stderr = ValidationStderr
    /\ sleeps = <<>>
    /\ ret.result.posted_via = "gh_cli_fallback"

\* the index entries of each diff the remote may serve
EntriesOf == [d \in Diffs |-> parse_diff_for_review_lines(d)]

\* the index entries of the diff the remote serves
Entries == EntriesOf[remote_diff]

EntryMatches(k) == Entries[k].path = path /\ Entries[k].line = line

LineInDiff == \E k \in 1..Len(Entries) : EntryMatches(k)

FirstMatch ==
    CHOOSE k \in 1..Len(Entries) :
        EntryMatches(k) /\ \A j \in 1..(k - 1) : ~EntryMatches(j)

\* the caller passed a position, so the call looks nothing up
PositionGiven == entry = "inline" /\ position = GivenPosition

\* C5: a call whose (path, line) matches no entry of the parsed diff makes no
\* positional post and no wait, makes one plain post and returns a fallback
\* result saying the line is not in the diff; a call whose (path, line) matches
\* posts at the position of the first matching entry.
C5_ResolutionMissFallsBack ==
    (Called /\ ~PositionGiven) =>
        /\ ~LineInDiff =>
               /\ CallInlinePosts = <<>>
               /\ sleeps = <<>>
               /\ Len(CallPlainPosts) <= 1
               /\ ret.st = "running" => pc \in {"head_sha", "fetch_pr", "not_in_diff"}
               /\ ret.st = "returned" =>
                      /\ Len(CallPlainPosts) = 1
                      /\ ret.result.posted_via = "gh_cli_fallback"
                      /\ ret.result.error = "Line not in diff"
                      /\ "attempts" \notin DOMAIN ret.result
        /\ LineInDiff =>
               /\ pc # "not_in_diff"
               /\ \A k \in 1..Len(CallInlinePosts) :
                      CallInlinePosts[k].position = Entries[FirstMatch].position
               /\ pc \in {"attempt", "sleep", "fallback"} =>
                      position = Entries[FirstMatch].position

\* one request missed the diff and fell back; the next matches two entries of
\* the diff and is posted at the first one's position
C5_Witness ==
    /\ entry = "review"
    /\ remote_diff = DiffOverlap
    /\ Len(results.inline_comments) = 1
    /\ results.inline_comments[1].status = "success"
    /\ results.inline_comments[1].result.posted_via = "gh_cli_fallback"
    /\ results.inline_comments[1].result.error = "Line not in diff"
    /\ Cardinality({k \in 1..Len(Entries) : EntryMatches(k)}) = 2
    /\ Len(CallInlinePosts) = 1
    /\ CallInlinePosts[1].position = 4

\* C6: a positional post that succeeds is the last gh invocation of its call,
\* and the call returns an inline result with attempts = the number of that
\* attempt and the position it posted at.
C6_FirstSuccessReturns ==
    Called =>
        \A j \in 1..Len(CallPosts) :
            (CallPosts[j].kind = "inline" /\ CallPosts[j].returncode = 0) =>
                /\ j = Len(CallPosts)
                /\ \A i \in 1..(j - 1) : CallPosts[i].kind = "inline"
                /\ ret.st = "returned"
                /\ ret.result.posted_via = "gh_api_inline"
                /\ ret.result.attempts = j
                /\ ret.result.position = CallPosts[j].position
                /\ ret.result.position = position

\* two transient failures, then success on attempt 3
C6_Witness ==
    /\ ret.st = "returned"
    /\ ret.result.posted_via = "gh_api_inline"
    /\ ret.result.attempts = 3
    /\ Len(CallPosts) = 3
    /\ CallPosts[1].stderr = TransientStderr
    /\ CallPosts[2].stderr = TransientStderr
    /\ sleeps = <<1, 2>>

\* the comments the current call created
CallCreated == SelectSeq(CallPosts, LAMBDA p : p.returncode = 0)

\* C7: the gh invocations of a call are its positional attempts, followed by at
\* most one plain post; a call that made a positional attempt ends with a plain
\* post exactly when none of its positional attempts succeeded, and then its
\* retries were exhausted or its last attempt failed validation; no call has
\* both a successful positional post and a plain post, and a call creates at
\* most one comment.
C7_NoDoublePosting ==
    Called =>
        LET n == Len(CallInlinePosts) IN
        /\ CallPosts = CallInlinePosts \o CallPlainPosts
        /\ Len(CallPlainPosts) <= 1
        /\ Len(CallCreated) <= 1
        /\ n <= max_retries
        /\ ~(/\ \E k \in 1..n : CallInlinePosts[k].returncode = 0
             /\ CallPlainPosts # <<>>)
        /\ (n >= 1 /\ ret.st # "running") =>
               (Len(CallPlainPosts) = 1
                   <=> \A k \in 1..n : CallInlinePosts[k].returncode # 0)
        /\ (n >= 1 /\ CallPlainPosts # <<>>) =>
               \/ n = max_retries
               \/ CallInlinePosts[n].stderr = ValidationStderr

\* a transient failure, a validation failure, then the one fallback comment
C7_Witness ==
    /\ ret.st = "returned"
    /\ Len(CallInlinePosts) = 2
    /\ CallInlinePosts[1].stderr = TransientStderr
    /\ CallInlinePosts[2].stderr = ValidationStderr
    /\ Len(CallPlainPosts) = 1
    /\ CallPlainPosts[1].returncode = 0
    /\ Len(CallCreated) = 1


\* post_review_with_inline_comments is past its summary step
SummaryDone == entry = "review" /\ pc \notin {"start", "summary"}

\* C8: a failed summary post leaves summary_posted false with the error text in
\* summary_error and the inline requests are still all processed; a successful
\* one sets summary_posted and leaves summary_error empty.
C8_SummaryFailureRecorded ==
    SummaryDone =>
        /\ pc # "raised"
        /\ IF gh = "missing"
           THEN /\ \A n \in 1..Len(posts) : posts[n].kind # "summary"
                /\ ~results.summary_posted
                /\ results.summary_error = NoGhError
           ELSE /\ posts[1].kind = "summary"
                /\ \A n \in 2..Len(posts) : posts[n].kind # "summary"
                /\ posts[1].returncode = 0 =>
                       (results.summary_posted /\ results.summary_error = None)
                /\ posts[1].returncode # 0 =>
                       /\ ~results.summary_posted
                       /\ results.summary_error = "gh pr comment failed: " \o posts[1].stderr
        /\ pc = "returned" =>
               Len(results.inline_comments) = Len(deduplicated_comments)

\* the summary failed with a remote error and two requests were still posted
C8_Witness ==
    /\ entry = "review" /\ pc = "returned"
    /\ ~results.summary_posted
    /\ results.summary_error = "gh pr comment failed: " \o TransientStderr
    /\ results.deduplicated_total = 2
    /\ results.successful = 2

\* a call that raises under post_review_with_inline_comments appends a "failed"
\* record for its request and the loop goes on
C9_Step ==
    (entry = "review" /\ ret.st = "running" /\ ret'.st = "raised") =>
        /\ pc' = "loop"
        /\ idx' = idx + 1
        /\ results'.inline_comments =
               Append(results.inline_comments,
                      [path |-> path, line |-> line, status |-> "failed",
                       error |-> ret'.error])
        /\ results'.failed = results.failed + 1
        /\ results'.successful = results.successful

\* nothing is raised out of post_review_with_inline_comments, and what it
\* returns accounts for every surviving request
C9_Complete ==
    entry = "review" =>
        /\ pc # "raised"
        /\ pc = "returned" =>
               /\ Len(results.inline_comments) = results.deduplicated_total
               /\ results.successful + results.failed = results.deduplicated_total

\* C9: a failure while handling one surviving request becomes a "failed" record
\* for that request and is not raised out of post_review_with_inline_comments:
\* the later requests are processed and the caller receives the whole outcome.
C9_FailuresCaptured == [][C9_Step]_vars /\ []C9_Complete

\* the first request's fallback post failed, the second was still posted
C9_Witness ==
    /\ entry = "review" /\ pc = "returned"
    /\ Len(results.inline_comments) = 2
    /\ results.inline_comments[1].status = "failed"
    /\ results.inline_comments[1].error = "gh pr comment failed: " \o TransientStderr
    /\ results.inline_comments[2].status = "success"

\* C10: a hard local fault (gh cannot be started, or gh lacks credentials) makes
\* post_review_with_inline_comments abort instead of returning an outcome.
C10_HardLocalFaultAborts ==
    (entry = "review" /\ gh \in {"missing", "noauth"}) => pc # "returned"

\* the place in the input of the first request with the (path, line) of post p
InputIndex(p) ==
    CHOOSE i \in 1..Len(inline_comments) :
        /\ inline_comments[i].path = p.path /\ inline_comments[i].line = p.line
        /\ \A j \in 1..(i - 1) :
               ~(inline_comments[j].path = p.path /\ inline_comments[j].line = p.line)

\* C16: posts are made one after another: the summary post is the first post,
\* and a post for a request that comes earlier in the input is never made after
\* a post for a request that comes later (each post stands in this order to the
\* post made next).
C16_PostsInInputOrder ==
    entry = "review" =>
        \A a \in 1..(Len(posts) - 1) :
            /\ posts[a + 1].kind # "summary"
            /\ posts[a].kind # "summary"
               => InputIndex(posts[a]) <= InputIndex(posts[a + 1])

\* a summary post, then a retried positional post and the fallback post of one
\* request, then a post of a later request
C16_Witness ==
    /\ entry = "review"
    /\ Len(posts) >= 5
    /\ posts[1].kind = "summary"
    /\ posts[2].kind = "inline" /\ posts[3].kind = "inline"
    /\ posts[4].kind = "plain"
    /\ InputIndex(posts[2]) = InputIndex(posts[4])
    /\ InputIndex(posts[4]) < InputIndex(posts[5])

-----------------------------------------------------------------------------
(* Properties of the diff indexer, read off the text handed to the tool *)

ParseReturned == entry = "parse" /\ pc = "tool_returned"

\* the lines of the text handed to the tool
ParsedLines == Split(diff_arg, "\n")

IsFileMarker(l) == StartsWith(l, "diff --git")
IsHunkHeader(l) == StartsWith(l, "@@")

\* the file marker that opens the segment of line i; 0 before the first marker
SegmentOf(ls, i) ==
    LET ms == {j \in 1..i : IsFileMarker(ls[j])} IN
    IF ms = {} THEN 0 ELSE CHOOSE j \in ms : \A m \in ms : m <= j

\* the hunk headers of the segment of line i that stand at or before line i
HeadersBefore(ls, i) == {j \in (SegmentOf(ls, i) + 1)..i : IsHunkHeader(ls[j])}

\* the first hunk header of the segment of line i; 0 when none stands before line i
FirstHeader(ls, i) ==
    LET hs == HeadersBefore(ls, i) IN
    IF SegmentOf(ls, i) = 0 \/ hs = {} THEN 0
    ELSE CHOOSE j \in hs : \A m \in hs : j <= m

\* the header of the hunk line i lies in; 0 when line i lies in no hunk
HunkOf(ls, i) ==
    LET hs == HeadersBefore(ls, i) IN
    IF SegmentOf(ls, i) = 0 \/ hs = {} THEN 0
    ELSE CHOOSE j \in hs : \A m \in hs : m <= j

\* the lines an entry is emitted for: '+' lines, not '+++', after a file marker
EmitLines(ls) ==
    {i \in 1..Len(ls) : /\ SegmentOf(ls, i) > 0
                        /\ StartsWith(ls[i], "+")
                        /\ ~StartsWith(ls[i], "+++")}

\* the line the k-th entry was emitted for
EmitLine(ls, k) ==
    CHOOSE i \in EmitLines(ls) : Cardinality({j \in EmitLines(ls) : j <= i}) = k

\* the entries stand for the emitting lines, in order
EntriesFollowEmitLines ==
    ParseReturned =>
        LET ls == ParsedLines IN
        /\ Len(tool_result) = Cardinality(EmitLines(ls))
        /\ \A k \in 1..Len(tool_result) :
               tool_result[k].content = Drop(ls[EmitLine(ls, k)], 1)

\* C11: an entry of a hunk has for position the number of lines from the first
\* hunk header of its segment to its own line, no-newline markers left out: the
\* file-header lines before the first hunk header are not counted.
C11_HeaderLinesNotCounted ==
    ParseReturned =>
        LET ls == ParsedLines IN
        \A k \in 1..Len(tool_result) :
            LET i == EmitLine(ls, k)
                h == FirstHeader(ls, i)
            IN  h > 0 =>
                  tool_result[k].position =
                      Cardinality({j \in h..i : ~StartsWith(ls[j], "\\")})

\* C12: the position of an entry is the number of lines from the line after its
\* own file marker to its own line, no-newline markers left out, whatever stands
\* before that marker; the positions of the entries of one segment strictly
\* increase in emission order.
C12_PositionRestartsPerSegment ==
    ParseReturned =>
        LET ls == ParsedLines IN
        /\ \A k \in 1..Len(tool_result) :
               LET i == EmitLine(ls, k)
                   s == SegmentOf(ls, i)
               IN  tool_result[k].position =
                       Cardinality({j \in (s + 1)..i : ~StartsWith(ls[j], "\\")})
        /\ \A k1, k2 \in 1..Len(tool_result) :
               (/\ k1 < k2
                /\ SegmentOf(ls, EmitLine(ls, k1)) = SegmentOf(ls, EmitLine(ls, k2)))
               => tool_result[k1].position < tool_result[k2].position

\* an entry of a hunk of a second segment, after a first segment that had a hunk
C12_Witness ==
    /\ ParseReturned
    /\ LET ls == ParsedLines IN
       \E k \in 1..Len(tool_result) :
           LET i == EmitLine(ls, k)
               s == SegmentOf(ls, i)
           IN  /\ s > 1
               /\ HunkOf(ls, s - 1) > 0
               /\ HunkOf(ls, i) > 0
               /\ tool_result[k].position = i - s

\* the new-side start a hunk header declares
NewStart(l) == IF l = "@@ -1,3 +1,4 @@" THEN 1 ELSE 8

\* inside a hunk: an added line, an unchanged line
IsAdded(l) == StartsWith(l, "+")
IsUnchanged(l) == StartsWith(l, " ")

\* the added and unchanged lines of the hunk at h that stand before line i
NewSideBefore(ls, h, i) ==
    {j \in (h + 1)..(i - 1) : IsAdded(ls[j]) \/ IsUnchanged(ls[j])}

\* C13: the line of an entry of a hunk is the new-side start its hunk header
\* declares plus the number of added and unchanged lines before it in the hunk;
\* removed lines and no-newline markers do not count.
C13_LineCountsAddedAndUnchanged ==
    ParseReturned =>
        LET ls == ParsedLines IN
        \A k \in 1..Len(tool_result) :
            LET i == EmitLine(ls, k)
                h == HunkOf(ls, i)
            IN  h > 0 =>
                  tool_result[k].line =
                      NewStart(ls[h]) + Cardinality(NewSideBefore(ls, h, i))

\* C18 as stated: the lines of the entries of one segment strictly increase in
\* emission order, whatever hunks the segment holds, so no two entries of a
\* segment have the same line.
C18_LinesIncreasePerSegment ==
    ParseReturned =>
        LET ls == ParsedLines IN
        \A k1, k2 \in 1..Len(tool_result) :
            (/\ k1 < k2
             /\ SegmentOf(ls, EmitLine(ls, k1)) = SegmentOf(ls, EmitLine(ls, k2)))
            => tool_result[k1].line < tool_result[k2].line

\* the hunk header at h declares a start beyond the new-side lines of the hunk
\* before it in its segment
StartsBeyondPrevious(ls, h) ==
    LET p == HunkOf(ls, h - 1) IN
    p > 0 => NewStart(ls[h]) >= NewStart(ls[p]) + Cardinality(NewSideBefore(ls, p, h))

\* C18, amended: of two entries of one segment, the earlier in a hunk, the later
\* has the greater line when every hunk header between them declares a start
\* beyond the new-side lines of the hunk before it (hunks in ascending order
\* that do not overlap).
C18_LinesIncreaseOverOrderedHunks ==
    ParseReturned =>
        LET ls == ParsedLines IN
        \A k1, k2 \in 1..Len(tool_result) :
            LET i1 == EmitLine(ls, k1)
                i2 == EmitLine(ls, k2)
            IN  (/\ k1 < k2
                 /\ SegmentOf(ls, i1) = SegmentOf(ls, i2)
                 /\ HunkOf(ls, i1) > 0
                 /\ \A h \in i1..i2 : IsHunkHeader(ls[h]) => StartsBeyondPrevious(ls, h))
                => tool_result[k1].line < tool_result[k2].line

\* two entries of one segment in two hunks, the second hunk declared beyond the first
C18_Witness ==
    /\ ParseReturned
    /\ LET ls == ParsedLines IN
       \E k \in 1..(Len(tool_result) - 1) :
           LET i1 == EmitLine(ls, k)
               i2 == EmitLine(ls, k + 1)
           IN  /\ SegmentOf(ls, i1) = SegmentOf(ls, i2)
               /\ HunkOf(ls, i1) > 0
               /\ HunkOf(ls, i1) < HunkOf(ls, i2)
               /\ \A h \in i1..i2 : IsHunkHeader(ls[h]) => StartsBeyondPrevious(ls, h)
               /\ tool_result[k].line < tool_result[k + 1].line

\* the last line of the segment the file marker at s opens
SegmentEnd(ls, s) ==
    LET ms == {j \in (s + 1)..Len(ls) : IsFileMarker(ls[j])} IN
    IF ms = {} THEN Len(ls) ELSE (CHOOSE j \in ms : \A m \in ms : j <= m) - 1

\* C19: every entry comes from a segment that holds a hunk header: a segment
\* without one yields no entry.
C19_NoHunkNoEntry ==
    ParseReturned =>
        LET ls == ParsedLines IN
        \A k \in 1..Len(tool_result) :
            LET s == SegmentOf(ls, EmitLine(ls, k)) IN
            \E h \in s..SegmentEnd(ls, s) : IsHunkHeader(ls[h])

\* the first file marker of the text; 0 when it has none
FirstMarker(ls) ==
    LET ms == {j \in 1..Len(ls) : IsFileMarker(ls[j])} IN
    IF ms = {} THEN 0 ELSE CHOOSE j \in ms : \A m \in ms : j <= m

\* C20: a text without a file marker gives no entry, and the lines before the
\* first file marker change nothing: the result is that of the text from the
\* first marker on.
C20_PreambleIgnored ==
    ParseReturned =>
        LET ls == ParsedLines
            m == FirstMarker(ls)
        IN  IF m = 0 THEN tool_result = <<>>
            ELSE tool_result =
                     parse_diff_for_review_lines(JoinLines(SubSeq(ls, m, Len(ls))))

-----------------------------------------------------------------------------
(* Properties of a review posted while the PR is pushed to *)

\* C14: the positional posts of one post_review_with_inline_comments invocation
\* all carry one commit identity, also when the remote head advances meanwhile.
C14_OneHeadPerReview ==
    entry = "review" =>
        \A i, j \in 1..Len(posts) :
            (posts[i].kind = "inline" /\ posts[j].kind = "inline")
            => posts[i].commit_id = posts[j].commit_id

\* C15: the summary request differs from the one the same invocation would send
\* with any other event.
C15_EventTagsSummary ==
    (entry = "review" /\ posts # <<>> /\ posts[1].kind = "summary") =>
        \A e \in Events \ {event} :
            posts[1] # SummaryPost(Summary, e,
                           [returncode |-> posts[1].returncode,
                            stderr |-> posts[1].stderr])

-----------------------------------------------------------------------------
(* Properties of the check_related_config_files tool *)

ConfigReturned == entry = "config" /\ pc = "tool_returned"

\* some changed file of the PR contains sub
Changed(sub) == \E i \in 1..Len(remote_files) : Contains(remote_files[i], sub)

\* relevant_configs has a member with this path
Reported(p) ==
    \E i \in 1..Len(tool_result.relevant_configs) :
        tool_result.relevant_configs[i].path = p

\* C17: the answer follows the changed files of the PR: a changed path under
\* models/ brings the model-registry entry, a requirements file the dependency
\* entry, a file under .github/ the CI entry, a config file itself.
C17_ConfigsFollowChangedFiles ==
    ConfigReturned =>
        /\ Changed("models/") => Reported("vllm/model_executor/models/__init__.py")
        /\ Changed("requirements") => Reported("pyproject.toml")
        /\ Changed(".github/") => Reported(".github/workflows/")
        /\ Changed("Config/app.yaml") => Reported("Config/app.yaml")

-----------------------------------------------------------------------------
(* Termination and the results reported *)

\* the operation the caller invoked has returned or raised
Done == pc \in {"returned", "raised"}

\* the posts and waits made so far stay within the ceilings of C21
WithinCeilings ==
    /\ Called =>
           /\ Len(CallInlinePosts) <= max_retries
           /\ Len(sleeps) <= max_retries - 1
           /\ Len(CallPlainPosts) <= 1
    /\ Deduplicated =>
           Len(posts) <= 1 + results.deduplicated_total * (DefaultMaxRetries + 1)

\* C21: a post_inline_comment call makes at most max_retries positional posts,
\* max_retries - 1 waits and one plain post, and ends; an invocation of
\* post_review_with_inline_comments makes at most
\* 1 + deduplicated_total * (max_retries + 1) posts, and returns.
C21_Terminates ==
    /\ []WithinCeilings
    /\ (ret.st = "running") ~> (ret.st \in {"returned", "raised"})
    /\ <>Done

\* a review that returned after as many posts as the ceiling allows
C21_Witness ==
    /\ entry = "review" /\ pc = "returned"
    /\ results.deduplicated_total >= 1
    /\ Len(posts) = 1 + results.deduplicated_total * (DefaultMaxRetries + 1)

\* C22: the attempts value of a result is the number of positional posts the
\* call made.
C22_AttemptsCountsPosts ==
    (ret.st = "returned" /\ "attempts" \in DOMAIN ret.result) =>
        ret.result.attempts = Len(CallInlinePosts)

\* post_inline_comment resolves the position from the diff it has just fetched
Resolves == pc = "fetch_pr" /\ pc' = "attempt"

\* C23: when the position is resolved from the diff the remote serves, the
\* commit identity the positional posts will carry is the head that diff
\* belongs to, whatever pushes came before.
C23_CommitOfResolvedDiff == [][Resolves => commit_id = remote_head]_vars

\* the comments created on the PR for the k-th surviving request: the gh runs
\* made for it that the remote accepted
CreatedFor(k) ==
    LET c == deduplicated_comments[k] IN
    SelectSeq(posts, LAMBDA p : /\ p.kind # "summary"
                                /\ p.returncode = 0
                                /\ p.path = c.path /\ p.line = c.line)

\* the records of the outcome with this status
RecordsWith(status) ==
    SelectSeq(results.inline_comments, LAMBDA r : r.status = status)

\* C24: in the outcome a surviving request is recorded "success" exactly when
\* one comment was created for it and "failed" exactly when none was; the two
\* counters count those records and add up to deduplicated_total.
C24_StatusMatchesCreation ==
    (entry = "review" /\ pc = "returned") =>
        /\ \A k \in 1..Len(deduplicated_comments) :
               LET r == results.inline_comments[k]
                   n == Len(CreatedFor(k))
               IN  /\ r.status = "success" <=> n = 1
                   /\ r.status = "failed" <=> n = 0
        /\ results.successful = Len(RecordsWith("success"))
        /\ results.failed = Len(RecordsWith("failed"))
        /\ results.successful + results.failed = results.deduplicated_total

\* an outcome with a request posted by the fallback after a failed positional
\* post, and a request whose every post failed
C24_Witness ==
    /\ entry = "review" /\ pc = "returned"
    /\ \E k \in 1..Len(results.inline_comments) :
           /\ results.inline_comments[k].status = "success"
           /\ results.inline_comments[k].result.posted_via = "gh_cli_fallback"
           /\ Len(CreatedFor(k)) = 1
    /\ \E k \in 1..Len(results.inline_comments) :
           /\ results.inline_comments[k].status = "failed"
           /\ "body" \in DOMAIN deduplicated_comments[k]
           /\ \E n \in 1..Len(posts) :
                  /\ posts[n].kind = "plain"
                  /\ posts[n].returncode # 0
                  /\ posts[n].path = deduplicated_comments[k].path
                  /\ posts[n].line = deduplicated_comments[k].line

\* C25: every '+'-prefixed line inside a hunk, whatever its content, has an
\* entry of its own: for each such line text the entries with its content are
\* at least as many as its occurrences inside hunks.
C25_EveryAddedLineIndexed ==
    ParseReturned =>
        LET ls == ParsedLines IN
        \A i \in 1..Len(ls) :
            (IsAdded(ls[i]) /\ HunkOf(ls, i) > 0) =>
                Cardinality({k \in 1..Len(tool_result) :
                                 tool_result[k].content = Drop(ls[i], 1)})
                >= Cardinality({j \in 1..Len(ls) : ls[j] = ls[i] /\ HunkOf(ls, j) > 0})

====
